---- MODULE Spec2Model ----
(***************************************************************************)
(* Deferred-mutation and view-consistency engine of the gloo textures      *)
(* (gloo/texture.py on top of gloo/globject.py).                           *)
(*                                                                         *)
(* One root texture (Texture1D or Texture2D) is constructed; the client    *)
(* then resizes it, writes to it (set_data, indexed writes), takes views   *)
(* of it (indexed reads), writes through the views and drives the          *)
(* GLObject lifecycle (activate, deactivate, update, delete) of the root   *)
(* and of the views.  Arrays are represented by their shape and, for       *)
(* queued writes, by the serial number of the write.                       *)
(***************************************************************************)
EXTENDS Integers, Sequences, FiniteSets, TLC

(* ------------------------------ bounds -------------------------------- *)
MaxDim     == 2      \* largest extent of a spatial dimension
MaxViews   == 1      \* views created in one behaviour
MaxWrites  == 2      \* writes enqueued in one behaviour
MaxHandles == 1      \* handles handed out by glGenTextures
MaxCost    == 3      \* weight of the views, writes and handles together

(* --------------------------- program constants ------------------------ *)
MaxChannels == 4     \* "if shape[-1] > 4: raise"
NoHandle    == -1    \* GLObject._handle before creation

(* None, for a storage, an offset argument or a base *)
None   == <<-1>>
NoBase == 0

VARIABLES
    variant,     \* "1D" or "2D": the class of the root and of its views
    tex,         \* the texture objects: tex[1] is the root, the rest views
    nwrites,     \* serial number of the last array that was queued
    nhandles,    \* last name returned by glGenTextures
    superseded   \* serials dropped from a queue by _pending_data = []

vars == <<variant, tex, nwrites, nhandles, superseded>>

Root == 1

(* ----------------------------- tuples --------------------------------- *)
Zeros(n) == [i \in 1..n |-> 0]

Max(a, b) == IF a > b THEN a ELSE b
Min(a, b) == IF a < b THEN a ELSE b

RECURSIVE Product(_)
Product(s) == IF s = <<>> THEN 1 ELSE Head(s) * Product(Tail(s))

Reverse(s) == [i \in 1..Len(s) |-> s[Len(s) + 1 - i]]

Rank(v) == IF v = "1D" THEN 2 ELSE 3

\* Texture._formats: channel count -> pixel format, 0 when absent
Formats(c) == IF c \in 1..MaxChannels THEN c ELSE 0

Ids(q) == {q[i].id : i \in 1..Len(q)}

(* ------------------------- keys of an indexing ------------------------ *)
\* A key is a tuple of components (a lone component is wrapped in a tuple
\* by "if type(key) in [int, slice] or key == Ellipsis: key = (key,)").
KInt(k)         == [kind |-> "int",      a |-> k, b |-> 0, step |-> 1]
KSlice(a, b, s) == [kind |-> "slice",    a |-> a, b |-> b, step |-> s]
KEllipsis       == [kind |-> "ellipsis", a |-> 0, b |-> 0, step |-> 1]
KOther          == [kind |-> "other",    a |-> 0, b |-> 0, step |-> 1]

\* One bound of slice.indices(size) for a positive step
ClampIndex(v, size) ==
    IF v < 0 THEN Max(v + size, 0) ELSE Min(v, size)

\* slice(a, b, step).indices(size), positive steps
SliceIndices(k, size) ==
    [start |-> ClampIndex(k.a, size), stop |-> ClampIndex(k.b, size),
     step |-> k.step]

\* A range that keeps the bounds of a slice as slice.indices returns them,
\* without "if stop < start: start, stop = stop, start"
KeyRangeNoSwap(k, size) ==
    IF k.kind = "int" THEN
        LET n == IF k.a < 0 THEN k.a + size ELSE k.a IN
        IF n < 0 \/ n > size
        THEN [err |-> "index_range", start |-> 0, stop |-> 0]
        ELSE [err |-> "ok", start |-> n, stop |-> n + 1]
    ELSE IF k.kind = "slice" THEN
        LET r == SliceIndices(k, size) IN
        IF r.step # 1
        THEN [err |-> "non_contiguous", start |-> 0, stop |-> 0]
        ELSE [err |-> "ok", start |-> r.start, stop |-> r.stop]
    ELSE IF k.kind = "ellipsis" THEN
        [err |-> "ok", start |-> 0, stop |-> size]
    ELSE [err |-> "key_type", start |-> 0, stop |-> 0]

\* "for k,dim in zip(keys,dims)": the range of one key component in its
\* dimension, or the error it raises
KeyRange(k, size) ==
    IF k.kind = "int" THEN
        LET n == IF k.a < 0 THEN k.a + size ELSE k.a IN
        IF n < 0 \/ n > size
        THEN [err |-> "index_range", start |-> 0, stop |-> 0]
        ELSE [err |-> "ok", start |-> n, stop |-> n + 1]
    ELSE IF k.kind = "slice" THEN
        LET r == SliceIndices(k, size) IN
        IF r.step # 1
        THEN [err |-> "non_contiguous", start |-> 0, stop |-> 0]
        ELSE IF r.stop < r.start
        THEN [err |-> "ok", start |-> r.stop, stop |-> r.start]
        ELSE [err |-> "ok", start |-> r.start, stop |-> r.stop]
    ELSE IF k.kind = "ellipsis" THEN
        [err |-> "ok", start |-> 0, stop |-> size]
    ELSE [err |-> "key_type", start |-> 0, stop |-> 0]

\* "keys = key[::+1]; dims = range(0,len(key)); if key[0] == Ellipsis: ..."
\* the dimension (1-based) the i-th component of keys is applied to
KeyOrder(key) == IF key[1].kind = "ellipsis" THEN Reverse(key) ELSE key
KeyDim(key, shape, i) ==
    IF key[1].kind = "ellipsis" THEN Len(shape) + 1 - i ELSE i

\* The loop over the key: slices after the first i components, or the
\* error of the first component that raises
RECURSIVE KeyLoop(_, _, _)
KeyLoop(key, shape, i) ==
    IF i = 0
    THEN [err |-> "ok",
          slices |-> [d \in 1..Len(shape) |-> [start |-> 0, stop |-> shape[d]]]]
    ELSE LET prev == KeyLoop(key, shape, i - 1)
             dim  == KeyDim(key, shape, i)
             r    == KeyRange(KeyOrder(key)[i], shape[dim])
         IN IF prev.err # "ok" THEN prev
            ELSE IF r.err # "ok" THEN [err |-> r.err, slices |-> prev.slices]
            ELSE IF KeyOrder(key)[i].kind = "ellipsis" THEN prev
            ELSE [err |-> "ok",
                  slices |-> [prev.slices EXCEPT
                                ![dim] = [start |-> r.start, stop |-> r.stop]]]

\* "offset = tuple([s.start ...]); shape = tuple([s.stop-s.start ...])"
ParseKey(key, shape) ==
    LET l == KeyLoop(key, shape, Len(key)) IN
    [err    |-> l.err,
     slices |-> l.slices,
     offset |-> [d \in 1..Len(shape) |-> l.slices[d].start],
     shape  |-> [d \in 1..Len(shape) |-> l.slices[d].stop - l.slices[d].start]]

(* ----------------------- numpy basic indexing ------------------------- *)
\* shape of storage[slices] for normalised slices (numpy clips them)
NpSliceShape(storage, slices) ==
    [d \in 1..Len(storage) |->
        Max(0, Min(slices[d].stop, storage[d]) - Min(slices[d].start, storage[d]))]

\* key with the Ellipsis expanded to full slices over the remaining dims
ExpandKey(key, rank) ==
    LET e == {i \in 1..Len(key) : key[i].kind = "ellipsis"}
        full == [kind |-> "full", a |-> 0, b |-> 0, step |-> 1]
    IN IF e = {}
       THEN key \o [i \in 1..(rank - Len(key)) |-> full]
       ELSE LET p == CHOOSE i \in e : TRUE IN
            SubSeq(key, 1, p - 1)
              \o [i \in 1..(rank - (Len(key) - 1)) |-> full]
              \o SubSeq(key, p + 1, Len(key))

\* does storage[key] raise IndexError (an integer outside -d..d-1) ?
NpIndexError(storage, key) ==
    LET k == ExpandKey(key, Len(storage)) IN
    \E d \in 1..Len(storage) :
        k[d].kind = "int" /\ (k[d].a < -storage[d] \/ k[d].a >= storage[d])

\* length of storage[a:b] in a dimension of extent d (no swap of the bounds)
NpSliceLen(k, d) ==
    Max(0, ClampIndex(k.b, d) - ClampIndex(k.a, d))

\* shape of storage[key]: an integer drops its dimension, a slice keeps it
RECURSIVE NpDims(_, _, _)
NpDims(k, storage, d) ==
    IF d > Len(storage) THEN <<>>
    ELSE (IF k[d].kind = "int" THEN <<>>
          ELSE IF k[d].kind = "full" THEN <<storage[d]>>
          ELSE <<NpSliceLen(k[d], storage[d])>>)
         \o NpDims(k, storage, d + 1)

NpIndexShape(storage, key) == NpDims(ExpandKey(key, Len(storage)), storage, 1)

\* can an array of shape v be assigned to a target of shape t (broadcast) ?
\* (leading dimensions of extent 1 of the value are dropped first)
RECURSIVE Broadcastable(_, _)
Broadcastable(v, t) ==
    IF Len(v) > Len(t)
    THEN Head(v) = 1 /\ Broadcastable(Tail(v), t)
    ELSE \A i \in 1..Len(v) :
            v[i] = 1 \/ v[i] = t[Len(t) - Len(v) + i]

(* --------------------------- construction ----------------------------- *)
\* Texture.__init__ (after GLObject.__init__) for a texture given by
\* dtype and shape: no data, nothing pending.  The variants read
\* "resizeable" from their keyword arguments and do not hand it on, so
\* Texture.__init__ always sees its default, True.
NewTexture(shape, base, offset, store) ==
    [base        |-> base,
     shape       |-> shape,
     offset      |-> IF offset = None THEN Zeros(Len(shape)) ELSE offset,
     store       |-> store,
     data        |-> IF store THEN shape ELSE None,
     pending     |-> <<>>,
     resizeable  |-> TRUE,
     need_resize |-> shape # <<>>,
     need_update |-> FALSE,
     need_create |-> TRUE,
     need_delete |-> FALSE,
     \* extent the GL storage of the handle was allocated with by
     \* glTexImage1D/2D, <<>> while the handle has no storage
     allocated   |-> <<>>,
     need_parameterization |-> TRUE,
     handle      |-> NoHandle,
     valid       |-> TRUE,
     views       |-> <<>>,
     format      |-> Formats(shape[Len(shape)])]

\* Texture.__init__ for a texture given by a data array of that shape:
\* with store the array is kept as CPU storage, and in both cases it is
\* queued by set_data(data) (same shape, no offset: one write at zero)
NewTextureFromData(shape, store, id) ==
    [NewTexture(shape, NoBase, None, store) EXCEPT
        !.pending     = <<[data |-> shape, offset |-> Zeros(Len(shape)), id |-> id]>>,
        !.need_update = TRUE]

(* ------------------------------ resize -------------------------------- *)
\* A resize that empties the registry of views without marking the views
\* invalid (the loop "for view in self._views: view._valid = False" left out)
ResizeKeepsViewsValid(txs, t, shape) ==
    LET self == txs[t] IN
    IF ~self.resizeable THEN
        [err |-> "resize_not_allowed", tex |-> txs, sup |-> {}]
    ELSE IF self.base # NoBase THEN
        [err |-> "resize_not_allowed", tex |-> txs, sup |-> {}]
    ELSE IF Len(shape) # Len(self.shape) THEN
        [err |-> "dimension_mismatch", tex |-> txs, sup |-> {}]
    ELSE IF shape = self.shape THEN
        [err |-> "ok", tex |-> txs, sup |-> {}]
    ELSE
        [err |-> "ok",
         sup |-> Ids(self.pending),
         tex |-> [txs EXCEPT
                    ![t].views       = <<>>,
                    ![t].pending     = <<>>,
                    ![t].need_update = FALSE,
                    ![t].shape       = shape,
                    ![t].data        = IF self.data # None /\ self.store
                                       THEN self.data ELSE None]]

\* Texture.resize on texture t of the objects txs.  The result holds the
\* error raised ("ok" when none), the objects afterwards and the serials
\* dropped from the queue.
ResizeOp(txs, t, shape) ==
    LET self == txs[t] IN
    IF ~self.resizeable THEN
        [err |-> "resize_not_allowed", tex |-> txs, sup |-> {}]
    ELSE IF self.base # NoBase THEN
        [err |-> "resize_not_allowed", tex |-> txs, sup |-> {}]
    ELSE IF Len(shape) # Len(self.shape) THEN
        [err |-> "dimension_mismatch", tex |-> txs, sup |-> {}]
    ELSE IF shape = self.shape THEN
        [err |-> "ok", tex |-> txs, sup |-> {}]
    ELSE
        [err |-> "ok",
         sup |-> Ids(self.pending),
         tex |-> [i \in DOMAIN txs |->
                    IF i = t THEN
                        [self EXCEPT
                            !.views       = <<>>,
                            !.pending     = <<>>,
                            !.need_update = FALSE,
                            !.shape       = shape,
                            \* np.resize(self._data, self._data.shape)
                            !.data        = IF self.data # None /\ self.store
                                            THEN self.data ELSE None]
                    ELSE IF \E j \in 1..Len(self.views) : self.views[j] = i
                    THEN [txs[i] EXCEPT !.valid = FALSE]
                    ELSE txs[i]]]

(* ----------------------------- set_data ------------------------------- *)
\* "for i in range(len(data.shape)): if offset[i]+data.shape[i] > self.shape[i]"
DataTooLarge(data, offset, shape) ==
    \E i \in 1..Len(data) : offset[i] + data[i] > shape[i]

\* A set_data that queues the array without "self._need_update = True"
SetDataRootNoFlag(txs, t, data, offset, id) ==
    LET r1   == IF offset = None /\ data # txs[t].shape
                THEN ResizeOp(txs, t, data)
                ELSE [err |-> "ok", tex |-> txs, sup |-> {}]
        self == r1.tex[t]
        zero == offset = None \/ offset = Zeros(Len(self.shape))
        full == zero /\ data = self.shape
        q    == IF full THEN <<>> ELSE self.pending
        off  == IF zero THEN Zeros(Len(self.shape)) ELSE offset
        sup  == r1.sup \cup (IF full THEN Ids(self.pending) ELSE {})
    IN IF r1.err # "ok" THEN r1
       ELSE IF DataTooLarge(data, off, self.shape)
       THEN [err |-> "out_of_bounds",
             tex |-> [r1.tex EXCEPT ![t].pending = q], sup |-> sup]
       ELSE [err |-> "ok",
             sup |-> sup,
             tex |-> [r1.tex EXCEPT
                        ![t].pending = Append(q, [data |-> data,
                                                  offset |-> off, id |-> id])]]

\* A set_data that never empties the queue (the statement
\* "self._pending_data = []" of a full-extent write left out)
SetDataRootKeepsQueue(txs, t, data, offset, id) ==
    LET r1   == IF offset = None /\ data # txs[t].shape
                THEN ResizeOp(txs, t, data)
                ELSE [err |-> "ok", tex |-> txs, sup |-> {}]
        self == r1.tex[t]
        zero == offset = None \/ offset = Zeros(Len(self.shape))
        off  == IF zero THEN Zeros(Len(self.shape)) ELSE offset
    IN IF r1.err # "ok" THEN r1
       ELSE IF DataTooLarge(data, off, self.shape)
       THEN [err |-> "out_of_bounds", tex |-> r1.tex, sup |-> r1.sup]
       ELSE [err |-> "ok",
             sup |-> r1.sup,
             tex |-> [r1.tex EXCEPT
                        ![t].pending = Append(self.pending,
                                              [data |-> data, offset |-> off,
                                               id |-> id]),
                        ![t].need_update = TRUE]]

\* Texture.set_data on a base texture t (self.base is None), for an array
\* of shape data with serial id
SetDataRoot(txs, t, data, offset, id) ==
    LET r1   == IF offset = None /\ data # txs[t].shape
                THEN ResizeOp(txs, t, data)
                ELSE [err |-> "ok", tex |-> txs, sup |-> {}]
        self == r1.tex[t]
        zero == offset = None \/ offset = Zeros(Len(self.shape))
        full == zero /\ data = self.shape
        q    == IF full THEN <<>> ELSE self.pending
        off  == IF zero THEN Zeros(Len(self.shape)) ELSE offset
        sup  == r1.sup \cup (IF full THEN Ids(self.pending) ELSE {})
        cleared == [r1.tex EXCEPT ![t].pending = q]
    IN IF r1.err # "ok" THEN r1
       ELSE IF DataTooLarge(data, off, self.shape)
       THEN [err |-> "out_of_bounds", tex |-> cleared, sup |-> sup]
       ELSE [err |-> "ok",
             sup |-> sup,
             tex |-> [r1.tex EXCEPT
                        ![t].pending = Append(q, [data |-> data,
                                                  offset |-> off, id |-> id]),
                        ![t].need_update = TRUE]]

\* A set_data without the test of self._valid: an invalidated view hands
\* the array to its base like a valid one
SetDataIgnoresValid(txs, t, data, offset, id) ==
    LET self == txs[t] IN
    IF self.base # NoBase THEN
        SetDataRoot(txs, self.base, data, self.offset, id)
    ELSE SetDataRoot(txs, t, data, offset, id)

\* A set_data that queues the array of a view on the view itself, at the
\* offset of the view, instead of handing it to the base
SetDataQueuesOnView(txs, t, data, offset, id) ==
    LET self == txs[t] IN
    IF self.base # NoBase /\ ~self.valid THEN
        [err |-> "invalidated_view", tex |-> txs, sup |-> {}]
    ELSE IF self.base # NoBase THEN
        [err |-> "ok", sup |-> {},
         tex |-> [txs EXCEPT
                    ![t].pending = Append(self.pending,
                                          [data |-> data, offset |-> self.offset,
                                           id |-> id]),
                    ![t].need_update = TRUE]]
    ELSE SetDataRoot(txs, t, data, offset, id)

\* Texture.set_data on any texture: an invalidated view raises, a view
\* hands the array to its base with its own offset, a base queues it
SetDataOp(txs, t, data, offset, id) ==
    LET self == txs[t] IN
    IF self.base # NoBase /\ ~self.valid THEN
        [err |-> "invalidated_view", tex |-> txs, sup |-> {}]
    ELSE IF self.base # NoBase THEN
        SetDataRoot(txs, self.base, data, self.offset, id)
    ELSE SetDataRoot(txs, t, data, offset, id)

(* --------------------------- indexed read ----------------------------- *)
\* An indexed read that returns the view without "self._views.append(T)"
GetItemUnregistered(txs, t, key) ==
    LET self == txs[t]
        p    == ParseKey(key, self.shape)
        view == [NewTexture(p.shape, t, p.offset, TRUE) EXCEPT
                    !.data = IF self.data # None
                             THEN NpSliceShape(self.data, p.slices)
                             ELSE None]
    IN IF self.base # NoBase THEN [err |-> "view_access", tex |-> txs]
       ELSE IF p.err # "ok" THEN [err |-> p.err, tex |-> txs]
       ELSE IF p.shape[Len(p.shape)] > MaxChannels
       THEN [err |-> "too_many_channels", tex |-> txs]
       ELSE IF view.format = 0 THEN [err |-> "format", tex |-> txs]
       ELSE [err |-> "ok", tex |-> Append(txs, view)]

\* Texture.__getitem__: the view of texture t selected by key, built by
\* the constructor of the variant and registered on t
GetItemOp(txs, t, key) ==
    LET self == txs[t]
        p    == ParseKey(key, self.shape)
        view == [NewTexture(p.shape, t, p.offset, TRUE) EXCEPT
                    !.data = IF self.data # None
                             THEN NpSliceShape(self.data, p.slices)
                             ELSE None]
    IN IF self.base # NoBase THEN [err |-> "view_access", tex |-> txs]
       ELSE IF p.err # "ok" THEN [err |-> p.err, tex |-> txs]
       ELSE IF p.shape[Len(p.shape)] > MaxChannels
       THEN [err |-> "too_many_channels", tex |-> txs]
       ELSE IF view.format = 0 THEN [err |-> "format", tex |-> txs]
       ELSE [err |-> "ok",
             tex |-> [Append(txs, view) EXCEPT
                        ![t].views = Append(self.views, Len(txs) + 1)]]

(* --------------------------- indexed write ---------------------------- *)
\* Texture.__setitem__ of a value array of shape value, with serial id
SetItemOp(txs, t, key, value, id) ==
    LET self == txs[t]
        p    == ParseKey(key, self.shape)
        size == Product(p.shape)
        data == IF self.data # None THEN NpIndexShape(self.data, key)
                ELSE IF Product(value) # size THEN p.shape
                ELSE value
    IN IF self.base # NoBase /\ ~self.valid THEN
           [err |-> "invalidated_view", tex |-> txs, sup |-> {}]
       ELSE IF p.err # "ok" THEN [err |-> p.err, tex |-> txs, sup |-> {}]
       ELSE IF self.data # None /\ NpIndexError(self.data, key) THEN
           [err |-> "index_range", tex |-> txs, sup |-> {}]
       ELSE IF self.data # None /\ ~Broadcastable(value, data) THEN
           [err |-> "broadcast", tex |-> txs, sup |-> {}]
       ELSE IF self.base = NoBase THEN
           SetDataOp(txs, t, data, p.offset, id)
       ELSE \* "offset = self.offset + offset": the two tuples, joined
           SetDataOp(txs, self.base, data, self.offset \o p.offset, id)

(* ---------------------------- GL objects ------------------------------ *)
\* an entry of the trace: a hook that ran or a GL call that was issued
Hook(name, t)         == [fn |-> name, args |-> <<t>>, id |-> 0]
GLCall(name, args)    == [fn |-> name, args |-> args,  id |-> 0]
GLUpload(args, id)    == [fn |-> "glTexSubImage", args |-> args, id |-> id]

\* Texture1D._resize / Texture2D._resize: glTexImage1D(width),
\* glTexImage2D(width, height), no data
ResizeCall(v, self) ==
    IF v = "1D" THEN GLCall("glTexImage", <<self.shape[1]>>)
    ELSE GLCall("glTexImage", <<self.shape[2], self.shape[1]>>)

\* the glTexSubImage1D(x, width) / glTexSubImage2D(x, y, width, height)
\* call of one queue entry
UploadCall(v, e) ==
    IF v = "1D" THEN GLUpload(<<e.offset[1], e.data[1]>>, e.id)
    ELSE GLUpload(<<e.offset[2], e.offset[1], e.data[2], e.data[1]>>, e.id)

\* "while self._pending_data: data, offset = self._pending_data.pop(0) ..."
\* data.shape[0] (1D) or data.shape[1] (2D) raises IndexError on an array
\* of too few dimensions, after the entry was popped
RECURSIVE Drain(_, _)
Drain(v, q) ==
    IF q = <<>> THEN [calls |-> <<>>, pending |-> <<>>, err |-> "ok"]
    ELSE IF Len(Head(q).data) < Rank(v) - 1
    THEN [calls |-> <<>>, pending |-> Tail(q), err |-> "IndexError"]
    ELSE LET rest == Drain(v, Tail(q)) IN
         [calls   |-> <<UploadCall(v, Head(q))>> \o rest.calls,
          pending |-> rest.pending,
          err     |-> rest.err]

\* An update hook that allocates the storage after the uploads instead of
\* before them
UpdateHookAllocatesLate(v, self, t) ==
    IF self.base # NoBase
    THEN [tex |-> self, calls |-> <<Hook("_update", t)>>, err |-> "ok"]
    ELSE LET d == Drain(v, self.pending) IN
         [tex   |-> [self EXCEPT !.need_resize = FALSE, !.pending = d.pending,
                                 !.allocated = IF self.need_resize
                                               THEN ResizeCall(v, self).args
                                               ELSE self.allocated],
          calls |-> <<Hook("_update", t)>>
                    \o d.calls
                    \o (IF self.need_resize THEN <<ResizeCall(v, self)>> ELSE <<>>),
          err   |-> d.err]

\* Texture1D._update / Texture2D._update on texture object self (number t)
UpdateHook(v, self, t) ==
    IF self.base # NoBase
    THEN [tex |-> self, calls |-> <<Hook("_update", t)>>, err |-> "ok"]
    ELSE LET d == Drain(v, self.pending) IN
         [tex   |-> [self EXCEPT !.need_resize = FALSE, !.pending = d.pending,
                                 !.allocated = IF self.need_resize
                                               THEN ResizeCall(v, self).args
                                               ELSE self.allocated],
          calls |-> <<Hook("_update", t)>>
                    \o (IF self.need_resize THEN <<ResizeCall(v, self)>> ELSE <<>>)
                    \o d.calls,
          err   |-> d.err]

\* Texture._create: glGenTextures hands out the next unused name
CreateHook(self, t, nh) ==
    [tex   |-> [self EXCEPT !.handle = nh + 1, !.allocated = <<>>],
     calls |-> <<Hook("_create", t), GLCall("glGenTextures", <<nh + 1>>)>>]

\* Texture._parameterize: the four glTexParameterf calls (filters, wraps)
\* when pending, then "self._need_parameterization = True"
ParameterizeHook(self) ==
    [tex   |-> [self EXCEPT !.need_parameterization = TRUE],
     calls |-> IF self.need_parameterization
               THEN <<GLCall("glTexParameterf", <<>>)>> ELSE <<>>]

\* Texture._activate: bind, then _parameterize when it is pending
ActivateHook(self, t) ==
    LET bind == <<Hook("_activate", t), GLCall("glBindTexture", <<self.handle>>)>>
    IN IF self.need_parameterization
       THEN [tex   |-> ParameterizeHook(self).tex,
             calls |-> bind \o ParameterizeHook(self).calls]
       ELSE [tex |-> self, calls |-> bind]

\* Texture._deactivate: bind the null texture
DeactivateHook(self, t) ==
    <<Hook("_deactivate", t), GLCall("glBindTexture", <<0>>)>>

\* An activate that runs the create hook on every call, whatever
\* _need_create says
ActivateAlwaysCreates(v, self, t, nh) ==
    LET c == [tex   |-> [CreateHook(self, t, nh).tex EXCEPT
                            !.need_create = FALSE],
              calls |-> CreateHook(self, t, nh).calls, nh |-> nh + 1]
        a == ActivateHook(c.tex, t)
        u == UpdateHook(v, a.tex, t)
    IN IF ~a.tex.need_update
       THEN [tex |-> a.tex, calls |-> c.calls \o a.calls, nh |-> c.nh,
             err |-> "ok"]
       ELSE [tex   |-> IF u.err = "ok"
                       THEN [u.tex EXCEPT !.need_update = FALSE] ELSE u.tex,
             calls |-> c.calls \o a.calls \o u.calls,
             nh    |-> c.nh,
             err   |-> u.err]

\* GLObject.activate
ActivateOp(v, self, t, nh) ==
    LET c == IF self.need_create
             THEN [tex   |-> [CreateHook(self, t, nh).tex EXCEPT
                                 !.need_create = FALSE],
                   calls |-> CreateHook(self, t, nh).calls, nh |-> nh + 1]
             ELSE [tex |-> self, calls |-> <<>>, nh |-> nh]
        a == ActivateHook(c.tex, t)
        u == UpdateHook(v, a.tex, t)
    IN IF ~a.tex.need_update
       THEN [tex |-> a.tex, calls |-> c.calls \o a.calls, nh |-> c.nh,
             err |-> "ok"]
       ELSE [tex   |-> IF u.err = "ok"
                       THEN [u.tex EXCEPT !.need_update = FALSE] ELSE u.tex,
             calls |-> c.calls \o a.calls \o u.calls,
             nh    |-> c.nh,
             err   |-> u.err]

\* GLObject.update
UpdateOp(v, self, t, nh) ==
    LET a == ActivateOp(v, self, t, nh)
        u == UpdateHook(v, a.tex, t)
    IN IF ~self.need_update
       THEN [tex |-> self, calls |-> <<>>, nh |-> nh, err |-> "ok"]
       ELSE IF a.err # "ok" THEN a
       ELSE IF u.err # "ok"
       THEN [tex |-> u.tex, calls |-> a.calls \o u.calls, nh |-> a.nh,
             err |-> u.err]
       ELSE [tex   |-> [u.tex EXCEPT !.need_update = FALSE],
             calls |-> a.calls \o u.calls \o DeactivateHook(u.tex, t),
             nh    |-> a.nh,
             err   |-> "ok"]

\* GLObject.delete
DeleteOp(self, t) ==
    [tex   |-> [self EXCEPT !.handle = NoHandle, !.allocated = <<>>,
                            !.need_create = TRUE,
                            !.need_update = TRUE, !.need_delete = FALSE],
     calls |-> IF self.need_delete
               THEN <<Hook("_delete", t), GLCall("glDeleteTextures", <<self.handle>>)>>
               ELSE <<>>]

(* ------------------------------ inputs -------------------------------- *)
Variants == {"1D", "2D"}

\* shapes with the channel axis, (width, c) and (height, width, c): the
\* largest extent with one channel and a single texel with two channels
Shapes(v) ==
    IF v = "1D" THEN {<<MaxDim, 1>>, <<1, 2>>}
    ELSE {<<2, MaxDim, 1>>, <<1, 1, 2>>}

\* shapes handed to the constructor: with the channel axis, without it (a
\* channel axis of 1 is added) and with too many channels
CtorShapes(v) ==
    Shapes(v) \cup
    (IF v = "1D" THEN {<<MaxDim>>, <<1, MaxChannels + 1>>}
     ELSE {<<2, MaxDim>>, <<1, 1, MaxChannels + 1>>})

\* shapes handed to resize: the above and one of another rank
ResizeShapes(v) == Shapes(v) \cup {<<1>>}

\* one texel, the first and the second offset of a dimension
Texel(v)  == [i \in 1..Rank(v) |-> 1]
Unit(v)   == [i \in 1..Rank(v) |-> IF i = Rank(v) - 1 THEN 1 ELSE 0]

\* arrays and offsets handed to set_data: a whole array without offset
\* (resizes when the shape differs), one texel at an offset, and the
\* largest array away from the origin
SetDataArgs(v) ==
    {<<d, None>> : d \in Shapes(v)}
      \cup {<<Texel(v), Zeros(Rank(v))>>, <<Texel(v), Unit(v)>>}
      \cup {<<d, Unit(v)>> : d \in Shapes(v)}

\* the keys the client of this model indexes with
Keys ==
    {<<KSlice(1, MaxDim, 1)>>, <<KSlice(MaxDim, 0, 1)>>, <<KInt(MaxDim)>>,
     <<KInt(-1)>>, <<KInt(0), KInt(0)>>, <<KEllipsis, KInt(1)>>,
     <<KInt(-MaxDim - 1)>>, <<KSlice(0, MaxDim, 2)>>, <<KOther>>}

\* values assigned by an indexed write: an array of the selected shape, or
\* a scalar (shape ())
ValueKinds == {"array", "scalar"}
ValueShape(kind, self, key) ==
    IF kind = "scalar" THEN <<>> ELSE ParseKey(key, self.shape).shape

(* ---------------------- the constructors of the variants -------------- *)
\* Texture1D.__init__ / Texture2D.__init__: the shape checks of the variant
\* (a bare shape gets a channel axis of 1) and the format lookup
VariantShape(v, shape) ==
    IF Len(shape) = Rank(v) - 1 THEN Append(shape, 1) ELSE shape
VariantError(v, shape) ==
    IF Len(shape) < Rank(v) - 1 THEN "too_few_dimensions"
    ELSE IF Len(shape) > Rank(v) THEN "too_many_dimensions"
    ELSE IF Len(shape) = Rank(v) /\ shape[Len(shape)] > MaxChannels
    THEN "too_many_channels"
    ELSE IF Formats(VariantShape(v, shape)[Rank(v)]) = 0 THEN "format"
    ELSE "ok"

\* Texture1D(...) / Texture2D(...): the root it returns, or the error.  The
\* keyword argument resizeable is read and not handed to Texture.__init__.
ConstructOp(v, shape, fromData, store, resizeable) ==
    [err |-> VariantError(v, shape),
     tex |-> IF VariantError(v, shape) # "ok" THEN <<>>
             ELSE IF fromData
             THEN <<NewTextureFromData(VariantShape(v, shape), store, 1)>>
             ELSE <<NewTexture(VariantShape(v, shape), NoBase, None, store)>>]

(* ------------------------------- state -------------------------------- *)
\* the program before any texture is constructed
Init ==
    /\ variant = "none"
    /\ tex = <<>>
    /\ nwrites = 0
    /\ nhandles = 0
    /\ superseded = {}

\* what a behaviour has used of its bounds: a view is a whole texture
\* object and weighs twice a queued write or a handle
Cost == 2 * (Len(tex) - 1) + nwrites + nhandles

(* ------------------------------ actions ------------------------------- *)
\* root = Texture1D(...) or Texture2D(...)
Construct(v, shape, fromData, store, resizeable) ==
    LET r == ConstructOp(v, shape, fromData, store, resizeable) IN
    /\ tex = <<>>
    /\ r.err = "ok"
    /\ variant' = v
    /\ tex' = r.tex
    /\ nwrites' = IF fromData THEN 1 ELSE 0
    /\ UNCHANGED <<nhandles, superseded>>

\* texture.resize(shape)
Resize(t, shape) ==
    LET r == ResizeOp(tex, t, shape) IN
    /\ tex' = r.tex
    /\ superseded' = superseded \cup r.sup
    /\ UNCHANGED <<variant, nwrites, nhandles>>

\* texture.set_data(data, offset)
SetData(t, data, offset) ==
    LET r == SetDataOp(tex, t, data, offset, nwrites + 1) IN
    /\ nwrites < MaxWrites /\ Cost < MaxCost
    /\ tex' = r.tex
    /\ superseded' = superseded \cup r.sup
    /\ nwrites' = IF r.err = "ok" THEN nwrites + 1 ELSE nwrites
    /\ UNCHANGED <<variant, nhandles>>

\* texture[key]
GetItem(t, key) ==
    LET r == GetItemOp(tex, t, key) IN
    /\ Len(tex) <= MaxViews /\ Cost + 2 <= MaxCost
    /\ tex' = r.tex
    /\ UNCHANGED <<variant, nwrites, nhandles, superseded>>

\* texture[key] = value
SetItem(t, key, kind) ==
    LET r == SetItemOp(tex, t, key, ValueShape(kind, tex[t], key), nwrites + 1) IN
    /\ nwrites < MaxWrites /\ Cost < MaxCost
    /\ tex' = r.tex
    /\ superseded' = superseded \cup r.sup
    /\ nwrites' = IF r.err = "ok" THEN nwrites + 1 ELSE nwrites
    /\ UNCHANGED <<variant, nhandles>>

\* texture.activate()
Activate(t) ==
    LET r == ActivateOp(variant, tex[t], t, nhandles) IN
    /\ tex[t].need_create => (nhandles < MaxHandles /\ Cost < MaxCost)
    /\ tex' = [tex EXCEPT ![t] = r.tex]
    /\ nhandles' = r.nh
    /\ UNCHANGED <<variant, nwrites, superseded>>

\* texture.deactivate(): only the GL binding changes
Deactivate(t) ==
    /\ DeactivateHook(tex[t], t) # <<>>
    /\ UNCHANGED vars

\* texture.update()
Update(t) ==
    LET r == UpdateOp(variant, tex[t], t, nhandles) IN
    /\ tex[t].need_create => (nhandles < MaxHandles /\ Cost < MaxCost)
    /\ tex' = [tex EXCEPT ![t] = r.tex]
    /\ nhandles' = r.nh
    /\ UNCHANGED <<variant, nwrites, superseded>>

\* texture.delete()
Delete(t) ==
    LET r == DeleteOp(tex[t], t) IN
    /\ tex' = [tex EXCEPT ![t] = r.tex]
    /\ UNCHANGED <<variant, nwrites, nhandles, superseded>>

Next ==
    \/ \E v \in Variants : \E shape \in CtorShapes(v), fromData \in BOOLEAN,
          store \in BOOLEAN, resizeable \in BOOLEAN :
          Construct(v, shape, fromData, store, resizeable)
    \/ \E t \in DOMAIN tex, shape \in ResizeShapes(variant) : Resize(t, shape)
    \/ \E t \in DOMAIN tex, a \in SetDataArgs(variant) : SetData(t, a[1], a[2])
    \/ \E t \in DOMAIN tex, key \in Keys : GetItem(t, key)
    \/ \E t \in DOMAIN tex, key \in Keys, kind \in ValueKinds :
          SetItem(t, key, kind)
    \/ \E t \in DOMAIN tex : Activate(t)
    \/ \E t \in DOMAIN tex : Deactivate(t)
    \/ \E t \in DOMAIN tex : Update(t)
    \/ \E t \in DOMAIN tex : Delete(t)

Spec == Init /\ [][Next]_vars

(* ----------------------------- properties ----------------------------- *)
Roots == {t \in DOMAIN tex : tex[t].base = NoBase}
Views == {t \in DOMAIN tex : tex[t].base # NoBase}

\* the sub-region uploads among the calls of a hook, in the order issued
IsUpload(c) == c.fn = "glTexSubImage"
Uploads(calls) == SelectSeq(calls, IsUpload)

\* the region of a queued write: (x, width) or (x, y, width, height)
Region(v, e) ==
    IF v = "1D" THEN <<e.offset[1], e.data[1]>>
    ELSE <<e.offset[2], e.offset[1], e.data[2], e.data[1]>>

\* keys and values of the indexed writes
SetItemArgs == {<<key, kind>> : key \in Keys, kind \in ValueKinds}

\* C1: for every root and every successful resize to a different shape of
\* the same rank, afterwards the shape is the new shape, every view obtained
\* before the resize is invalid, the registry of views is empty, the queue
\* of pending writes is empty and the needs-update flag is clear.
ResizeContract ==
    \A t \in Roots : \A shape \in ResizeShapes(variant) :
        LET r == ResizeOp(tex, t, shape) IN
        (r.err = "ok" /\ Len(shape) = Len(tex[t].shape) /\ shape # tex[t].shape) =>
            /\ r.tex[t].shape = shape
            /\ \A i \in Views : tex[i].base = t => ~r.tex[i].valid
            /\ r.tex[t].views = <<>>
            /\ r.tex[t].pending = <<>>
            /\ ~r.tex[t].need_update

\* a root that was resized while it had a view and a queued write
ResizeContractWitness ==
    /\ tex # <<>>
    /\ \E i \in Views : ~tex[i].valid
    /\ tex[Root].views = <<>>
    /\ tex[Root].pending = <<>>
    /\ ~tex[Root].need_update
    /\ superseded # {}

\* C2: on a root, a successful set_data at the zero offset (omitted or all
\* zeros) whose array has the shape of the texture (after the implicit
\* resize) leaves exactly that one write in the queue, the writes queued
\* before it are dropped, and no dropped write is uploaded by a later drain.
FullWriteSupersedes ==
    /\ \A t \in Roots : \A a \in SetDataArgs(variant) :
        LET id   == nwrites + 1
            r    == SetDataOp(tex, t, a[1], a[2], id)
            zero == Zeros(Len(r.tex[t].shape))
        IN (r.err = "ok" /\ a[2] \in {None, zero} /\ a[1] = r.tex[t].shape) =>
              /\ r.tex[t].pending = <<[data |-> a[1], offset |-> zero, id |-> id]>>
              /\ Ids(tex[t].pending) \subseteq r.sup
    /\ \A t \in Roots :
        LET ups == Uploads(UpdateHook(variant, tex[t], t).calls) IN
        \A i \in DOMAIN ups : ups[i].id \notin superseded

\* a queue holding one full-extent write that superseded an earlier write
FullWriteSupersedesWitness ==
    /\ tex # <<>>
    /\ Len(tex[Root].pending) = 1
    /\ tex[Root].pending[1].data = tex[Root].shape
    /\ tex[Root].pending[1].offset = Zeros(Len(tex[Root].shape))
    /\ \E k \in superseded : k < tex[Root].pending[1].id

\* C3: the update hook of a root drains the queue in the order of the
\* writes, issues exactly one sub-region upload per entry, with the offset
\* and the extent of that entry, and leaves the queue empty.
UpdateDrainsQueue ==
    \A t \in Roots :
        LET q   == tex[t].pending
            r   == UpdateHook(variant, tex[t], t)
            ups == Uploads(r.calls)
        IN /\ r.err = "ok"
           /\ r.tex.pending = <<>>
           /\ Len(ups) = Len(q)
           /\ \A i \in DOMAIN q :
                /\ ups[i].id = q[i].id
                /\ ups[i].args = Region(variant, q[i])

\* C4: a set_data or an indexed write on a valid view queues on the base
\* exactly one write, whose offset has the rank of the shape of the base and
\* is, dimension by dimension, the offset of the view plus the offset given
\* (or computed from the key) inside the view; the view queues nothing.
ViewWriteComposesOffset ==
    \A t \in Views : tex[t].valid =>
        LET b  == tex[t].base
            id == nwrites + 1
            Composed(off) ==
                [d \in 1..Len(tex[b].shape) |-> tex[t].offset[d] + off[d]]
            Enqueued(r, off) ==
                r.err = "ok" =>
                    /\ r.tex[t].pending = <<>>
                    /\ Cardinality({i \in DOMAIN r.tex[b].pending :
                                        r.tex[b].pending[i].id = id}) = 1
                    /\ r.tex[b].pending[Len(r.tex[b].pending)].id = id
                    /\ r.tex[b].pending[Len(r.tex[b].pending)].offset
                          = Composed(off)
        IN /\ \A a \in SetDataArgs(variant) :
                a[2] # None =>
                    Enqueued(SetDataOp(tex, t, a[1], a[2], id), a[2])
           /\ \A k \in SetItemArgs :
                LET p == ParseKey(k[1], tex[t].shape) IN
                p.err = "ok" =>
                    Enqueued(SetItemOp(tex, t, k[1],
                                       ValueShape(k[2], tex[t], k[1]), id),
                             p.offset)

\* every set_data and every indexed write on an invalid view raises the
\* invalidated-view error and changes no texture
InvalidViewRejects ==
    \A t \in Views : ~tex[t].valid =>
        /\ \A a \in SetDataArgs(variant) :
            LET r == SetDataOp(tex, t, a[1], a[2], nwrites + 1) IN
            r.err = "invalidated_view" /\ r.tex = tex /\ r.sup = {}
        /\ \A k \in SetItemArgs :
            LET r == SetItemOp(tex, t, k[1], ValueShape(k[2], tex[t], k[1]),
                               nwrites + 1) IN
            r.err = "invalidated_view" /\ r.tex = tex /\ r.sup = {}

\* a step that changes the shape of the root leaves every view invalid, and
\* no step makes an invalid view valid again
InvalidViewStaysInvalid ==
    \A t \in Views :
        /\ tex'[Root].shape # tex[Root].shape => ~tex'[t].valid
        /\ ~tex[t].valid => ~tex'[t].valid

\* C5: once the base of a view was resized to a different shape the view is
\* invalid for ever: every later set_data and indexed write on it fails with
\* the invalidated-view error, and the failed call changes neither the queue,
\* the shape, the flags nor the registry of views of the base.
InvalidatedForever ==
    []InvalidViewRejects /\ [][InvalidViewStaysInvalid]_vars

\* an invalidated view whose base was written to after the resize
InvalidatedForeverWitness ==
    /\ tex # <<>>
    /\ \E t \in Views : ~tex[t].valid
    /\ tex[Root].pending # <<>>

\* C6: after every successful resize of a root that changes its shape (by
\* resize, or by set_data without offset) the needs-resize flag of the root
\* is set, and it stays set until the update hook runs.
ResizeMarksNeedResize ==
    [][tex # <<>> =>
        /\ tex'[Root].shape # tex[Root].shape => tex'[Root].need_resize
        /\ (tex[Root].need_resize /\ ~tex'[Root].need_resize) =>
              \/ tex'[Root] = ActivateOp(variant, tex[Root], Root, nhandles).tex
              \/ tex'[Root] = UpdateOp(variant, tex[Root], Root, nhandles).tex
      ]_vars

\* C7: the update hook of a root whose needs-resize flag is set issues the
\* allocation of the storage (current extent, no data) before every
\* sub-region upload and clears the flag; the update hook of a view issues no
\* GL call and drains nothing.
UpdateHookAllocatesFirst ==
    \A t \in DOMAIN tex :
        LET self   == tex[t]
            r      == UpdateHook(variant, self, t)
            extent == IF variant = "1D" THEN <<self.shape[1]>>
                      ELSE <<self.shape[2], self.shape[1]>>
        IN /\ (self.base = NoBase /\ self.need_resize) =>
                /\ ~r.tex.need_resize
                /\ \E i \in DOMAIN r.calls :
                      /\ r.calls[i].fn = "glTexImage"
                      /\ r.calls[i].args = extent
                      /\ \A j \in DOMAIN r.calls :
                            IsUpload(r.calls[j]) => i < j
           /\ self.base # NoBase =>
                /\ r.tex = self
                /\ \A j \in DOMAIN r.calls : r.calls[j].fn = "_update"

\* a root whose hook has allocated the storage and uploaded its queue
UpdateHookAllocatesFirstWitness ==
    /\ tex # <<>>
    /\ tex[Root].handle # NoHandle
    /\ ~tex[Root].need_resize
    /\ ~tex[Root].need_update
    /\ tex[Root].pending = <<>>
    /\ nwrites > 0
    /\ superseded = {}

\* C8: resize fails with the resize-not-allowed error on every root
\* constructed with resizeable=False and on every view, whatever the shape,
\* and the failed call changes nothing.
NotResizeableRejects ==
    [][/\ \A v \in Variants : \A shape \in CtorShapes(v),
                                 fromData \in BOOLEAN, store \in BOOLEAN :
            Construct(v, shape, fromData, store, FALSE) =>
                \A s \in ResizeShapes(v) :
                    LET r == ResizeOp(tex', Root, s) IN
                    r.err = "resize_not_allowed" /\ r.tex = tex'
       /\ \A t \in Views : \A s \in ResizeShapes(variant) :
            LET r == ResizeOp(tex, t, s) IN
            r.err = "resize_not_allowed" /\ r.tex = tex
      ]_vars

\* a key with an integer component that, a negative value taken from the
\* end, lies outside 0..size-1 of its dimension
IntOutOfRange(key, shape) ==
    \E i \in 1..Len(key) :
        LET k    == KeyOrder(key)[i]
            size == shape[KeyDim(key, shape, i)]
            n    == IF k.a < 0 THEN k.a + size ELSE k.a
        IN k.kind = "int" /\ (n < 0 \/ n > size - 1)

\* C9: every view of a root of shape S lies within S (offset >= 0 and
\* offset + shape <= S in every dimension), and an indexed read with an
\* integer out of range fails with the index-range error and registers no
\* view.
ViewsFitInBase ==
    /\ \A t \in Views : tex[t].valid =>
        \A d \in DOMAIN tex[t].shape :
            /\ tex[t].offset[d] >= 0
            /\ tex[t].offset[d] + tex[t].shape[d] <= tex[tex[t].base].shape[d]
    /\ \A t \in Roots : \A key \in Keys :
        IntOutOfRange(key, tex[t].shape) =>
            LET r == GetItemOp(tex, t, key) IN
            r.err = "index_range" /\ r.tex = tex

\* C10: on a 1D root of shape (n,1) the slice a:b with 0 <= a < b <= n
\* selects the view of offset (a,0) and shape (b-a,1), the inverted slice b:a
\* selects the same view, and the index -1 selects offset (n-1,0) and
\* shape (1,1).
SliceViews1D ==
    (tex # <<>> /\ variant = "1D") =>
        LET n == tex[Root].shape[1]
            c == tex[Root].shape[2]
            Yields(key, off, shp) ==
                LET r == GetItemOp(tex, Root, key) IN
                /\ r.err = "ok"
                /\ Len(r.tex) = Len(tex) + 1
                /\ r.tex[Len(r.tex)].offset = off
                /\ r.tex[Len(r.tex)].shape = shp
                /\ r.tex[Len(r.tex)].base = Root
        IN c = 1 =>
            /\ \A a \in 0..n, b \in 0..n :
                a < b =>
                    /\ Yields(<<KSlice(a, b, 1)>>, <<a, 0>>, <<b - a, 1>>)
                    /\ Yields(<<KSlice(b, a, 1)>>, <<a, 0>>, <<b - a, 1>>)
            /\ Yields(<<KInt(-1)>>, <<n - 1, 0>>, <<1, 1>>)

\* the view t[MaxDim:0] of a 1D root of shape (MaxDim,1)
SliceViews1DWitness ==
    /\ variant = "1D"
    /\ tex # <<>>
    /\ tex[Root].shape = <<MaxDim, 1>>
    /\ \E t \in Views :
        /\ tex[t].valid
        /\ tex[t].offset = <<0, 0>>
        /\ tex[t].shape = <<MaxDim, 1>>

\* the hooks among the calls of an operation, by name and in the order run
IsHook(c) == c.fn \in {"_create", "_activate", "_update", "_deactivate", "_delete"}
HookNames(calls) ==
    [i \in DOMAIN SelectSeq(calls, IsHook) |-> SelectSeq(calls, IsHook)[i].fn]

\* activate() runs create (when needs-create is set), bind, update (when
\* needs-update is set), in this order; the handle is -1 exactly while
\* needs-create is set, and an activate of a created texture keeps it
ActivateHookOrder ==
    \A t \in DOMAIN tex :
        LET self == tex[t]
            a    == ActivateOp(variant, self, t, nhandles)
        IN /\ HookNames(a.calls)
                 = (IF self.need_create THEN <<"_create">> ELSE <<>>)
                   \o <<"_activate">>
                   \o (IF self.need_update THEN <<"_update">> ELSE <<>>)
           /\ (self.handle = NoHandle) <=> self.need_create
           /\ a.tex.handle # NoHandle /\ ~a.tex.need_create
           /\ ~self.need_create => a.tex.handle = self.handle

\* only delete() makes a created texture need its creation again
CreateOnlyAfterDelete ==
    \A t \in DOMAIN tex :
        (~tex[t].need_create /\ tex'[t].need_create) =>
            tex'[t] = DeleteOp(tex[t], t).tex

\* C11: in every activate() the hooks run in the order create (only if
\* needs-create is set), bind, update (only if needs-update is set); without
\* a delete in between the create hook runs at most once, before the first
\* bind, and the handle is -1 exactly until that create.
LifecycleOrder ==
    []ActivateHookOrder /\ [][CreateOnlyAfterDelete]_vars

\* a texture that was created and updated by an activation
LifecycleOrderWitness ==
    \E t \in DOMAIN tex :
        /\ tex[t].handle # NoHandle
        /\ ~tex[t].need_create
        /\ ~tex[t].need_update

\* the pushes of the wrapping and interpolation state among the calls
IsParameterPush(c) == c.fn = "glTexParameterf"

\* C12: an activation of a root with the reparameterization pending pushes
\* the wrapping and interpolation state and leaves the flag clear; an
\* activation with the flag clear pushes nothing.
ParametersPushedOnce ==
    \A t \in Roots :
        LET a      == ActivateOp(variant, tex[t], t, nhandles)
            pushes == SelectSeq(a.calls, IsParameterPush)
        IN /\ tex[t].need_parameterization =>
                (pushes # <<>> /\ ~a.tex.need_parameterization)
           /\ ~tex[t].need_parameterization =>
                (pushes = <<>> /\ ~a.tex.need_parameterization)

\* C13: delete() runs the delete hook exactly when needs-delete is set, the
\* flag is set on every texture that holds a GL handle (so the handle is
\* released), and after delete() the handle is -1, needs-create and
\* needs-update are set and needs-delete is clear.
DeleteReleasesHandle ==
    \A t \in DOMAIN tex :
        LET d == DeleteOp(tex[t], t) IN
        /\ tex[t].handle # NoHandle => tex[t].need_delete
        /\ ("_delete" \in {d.calls[i].fn : i \in DOMAIN d.calls})
              <=> tex[t].need_delete
        /\ tex[t].handle # NoHandle =>
              \E i \in DOMAIN d.calls :
                  d.calls[i] = GLCall("glDeleteTextures", <<tex[t].handle>>)
        /\ d.tex.handle = NoHandle
        /\ d.tex.need_create /\ d.tex.need_update /\ ~d.tex.need_delete

\* C14: on a root with CPU storage, after set_data(A) without offset (A of
\* the shape of the texture or of another shape) and a drain, the CPU
\* storage has the shape of A and the drain uploads A and nothing else.
MirrorFollowsFullWrite ==
    \A t \in Roots : \A a \in SetDataArgs(variant) :
        LET id == nwrites + 1
            r  == SetDataOp(tex, t, a[1], a[2], id)
            h  == UpdateHook(variant, r.tex[t], t)
            A  == [data |-> a[1], offset |-> Zeros(Len(a[1])), id |-> id]
        IN (tex[t].store /\ a[2] = None /\ r.err = "ok") =>
              /\ h.err = "ok"
              /\ h.tex.data = a[1]
              /\ Uploads(h.calls) = <<GLUpload(Region(variant, A), id)>>

\* the extent of a queued array in dimension i of the texture: an array of
\* lower rank is one element along the dimensions it lacks
Extent(e, i) == IF i <= Len(e.data) THEN e.data[i] ELSE 1

\* C15: every entry of the queue of a root lies within the current shape
\* (offset[i] + extent[i] <= shape[i] in every dimension i), and a set_data
\* on a root that would break this fails with the out-of-bounds error and
\* changes nothing.
QueueWithinBounds ==
    \A t \in Roots :
        /\ \A k \in DOMAIN tex[t].pending : \A i \in DOMAIN tex[t].shape :
              tex[t].pending[k].offset[i] + Extent(tex[t].pending[k], i)
                 <= tex[t].shape[i]
        /\ \A a \in SetDataArgs(variant) :
              LET r == SetDataOp(tex, t, a[1], a[2], nwrites + 1) IN
              /\ (a[2] # None /\ \E i \in DOMAIN tex[t].shape :
                                    a[2][i] + a[1][i] > tex[t].shape[i])
                    => r.err = "out_of_bounds"
              /\ r.err = "out_of_bounds" => (r.tex = tex /\ r.sup = {})

\* a key of unit-step slices that selects a part of the shape: not all of it
\* and not an empty region
PartialSliceKey(key, shape) ==
    /\ \A i \in DOMAIN key : key[i].kind = "slice" /\ key[i].step = 1
    /\ ParseKey(key, shape).err = "ok"
    /\ ParseKey(key, shape).shape # shape
    /\ \A d \in DOMAIN shape : ParseKey(key, shape).shape[d] > 0

\* C16: an indexed write on a root with a key of unit-step slices that cover
\* a part of the extent, of an array of the selected shape, queues exactly
\* one write whose offset is the slice starts (0 where not keyed) and whose
\* extent is the slice lengths (full size where not keyed); the drain of a
\* queue that holds this write alone issues exactly one sub-region upload,
\* of that region.
SliceWriteEnqueuesRegion ==
    \A t \in Roots : \A key \in Keys :
        (tex[t].pending = <<>> /\ PartialSliceKey(key, tex[t].shape)) =>
            LET p  == ParseKey(key, tex[t].shape)
                id == nwrites + 1
                e  == [data |-> p.shape, offset |-> p.offset, id |-> id]
                r  == SetItemOp(tex, t, key, p.shape, id)
                h  == UpdateHook(variant, r.tex[t], t)
            IN /\ r.err = "ok"
               /\ r.tex[t].pending = <<e>>
               /\ h.err = "ok"
               /\ Uploads(h.calls) = <<GLUpload(Region(variant, e), id)>>

\* C17: the CPU storage of a root, when it has one, has the shape of the
\* texture; in particular it is reallocated by a resize that changes the
\* shape.
StorageHasTextureShape ==
    \A t \in Roots : tex[t].data # None => tex[t].data = tex[t].shape

\* a write (its result r) leaves the queue of every view empty and the
\* needs-update flag of every view as it was
ViewsUntouched(r) ==
    \A j \in Views :
        r.tex[j].pending = <<>> /\ r.tex[j].need_update = tex[j].need_update

\* C18: the queue of every view is empty in every state, no write sets the
\* needs-update flag of a view, and a write made through a view (set_data
\* or indexed write) is held in the queue of its base only.
ViewsQueueNothing ==
    /\ \A j \in Views : tex[j].pending = <<>>
    /\ \A t \in DOMAIN tex :
        LET id == nwrites + 1
            Held(r) ==
                (tex[t].base # NoBase /\ r.err = "ok") =>
                    id \in Ids(r.tex[tex[t].base].pending)
        IN /\ \A a \in SetDataArgs(variant) :
                LET r == SetDataOp(tex, t, a[1], a[2], id) IN
                ViewsUntouched(r) /\ Held(r)
           /\ \A k \in SetItemArgs :
                LET r == SetItemOp(tex, t, k[1],
                                   ValueShape(k[2], tex[t], k[1]), id) IN
                ViewsUntouched(r) /\ Held(r)

\* a write made through a valid view away from the origin, held in the
\* queue of the root
ViewsQueueNothingWitness ==
    \E t \in Views :
        /\ tex[t].valid
        /\ tex[t].offset # Zeros(Len(tex[t].shape))
        /\ tex[t].pending = <<>>
        /\ \E k \in DOMAIN tex[Root].pending :
              SubSeq(tex[Root].pending[k].offset, 1, Len(tex[t].shape))
                 = tex[t].offset

\* the serials of the arrays uploaded by the calls, in the order uploaded
UploadedIds(calls) ==
    [i \in DOMAIN Uploads(calls) |-> Uploads(calls)[i].id]

\* C19: every write that is in the queue of a root when the next update
\* cycle runs is uploaded exactly once by that cycle, whether activate() or
\* update() drives it, and update() with needs-update clear issues no call.
EveryWriteUploadedOnce ==
    \A t \in Roots :
        LET q   == tex[t].pending
            ids == [i \in DOMAIN q |-> q[i].id]
            a   == ActivateOp(variant, tex[t], t, nhandles)
            u   == UpdateOp(variant, tex[t], t, nhandles)
        IN /\ q # <<>> => tex[t].need_update
           /\ tex[t].need_update =>
                /\ UploadedIds(a.calls) = ids
                /\ UploadedIds(u.calls) = ids
           /\ ~tex[t].need_update => u.calls = <<>>

\* the views registered on texture t
Registered(t) == {tex[t].views[j] : j \in DOMAIN tex[t].views}

\* C20: a view created by indexing a root is valid exactly when it is in the
\* registry of views of that root: the registry holds no invalidated view
\* and misses no valid one.
RegistryIsValidViews ==
    /\ \A v \in Views : tex[v].valid <=> v \in Registered(tex[v].base)
    /\ \A t \in Roots : \A v \in Registered(t) :
          v \in Views /\ tex[v].base = t

\* a registered view of a root that was written to after the view was taken
RegistryIsValidViewsWitness ==
    /\ tex # <<>>
    /\ Registered(Root) # {}
    /\ \A v \in Registered(Root) : tex[v].valid
    /\ tex[Root].pending # <<>>

StorageExtent(v, shape) ==
    IF v = "1D" THEN <<shape[1]>> ELSE <<shape[2], shape[1]>>

\* C22: whenever an update cycle of a root (driven by activate() or by
\* update()) issues a sub-region upload, the storage of the handle the
\* upload goes to was last allocated with the extent of the current shape,
\* also after a resize that follows a completed cycle and after a delete()
\* followed by re-activation.
UploadsIntoCurrentExtent ==
    \A t \in Roots :
        LET a == ActivateOp(variant, tex[t], t, nhandles)
            u == UpdateOp(variant, tex[t], t, nhandles)
        IN /\ Uploads(a.calls) # <<>> =>
                a.tex.allocated = StorageExtent(variant, tex[t].shape)
           /\ Uploads(u.calls) # <<>> =>
                u.tex.allocated = StorageExtent(variant, tex[t].shape)

\* the trailing (channel) component of a shape
Channels(shape) == shape[Len(shape)]

\* C23: in every reachable state the channel count of every root is between
\* 1 and 4 and its pixel format is the entry of the format table for that
\* channel count; resize and the implicit resize of set_data keep it so.
FormatMatchesChannels ==
    \A t \in Roots :
        /\ Channels(tex[t].shape) \in 1..MaxChannels
        /\ tex[t].format = Formats(Channels(tex[t].shape))

====
